---- MODULE Spec2Model ----
(***************************************************************************)
(* Model of the useWebSocket hook of the coinflip front end                *)
(* (src/hooks/useWebSocket.ts): the React state of the hook, its refs, the *)
(* socket it owns, the reconnect timers, the inbound event handlers and    *)
(* the action functions it returns.                                        *)
(*                                                                         *)
(* React state is modelled in two layers.  room / isConnected / error /    *)
(* reconnectAttempts are the values of the last committed render (what the *)
(* closures of that render and the UI see).  pend holds the values the     *)
(* queued setState calls will produce at the next render: a setState(v)    *)
(* overwrites the pending value, a functional setState(prev => f(prev))    *)
(* is applied to the pending value, which is how React drains its update   *)
(* queue.  Render commits pend, syncs roomRef and runs the effects whose   *)
(* dependencies changed.                                                   *)
(***************************************************************************)
EXTENDS Integers, Sequences, FiniteSets, TLC

VARIABLES
    room,               \* useState room (committed), <<>> is null
    isConnected,        \* useState isConnected (committed)
    error,              \* useState error (committed), "null" is null
    reconnectAttempts,  \* useState reconnectAttempts (committed)
    pend,               \* values queued by setState, committed by Render
    roomRef,            \* roomRef.current
    socket,             \* socket.current: status and the reconnectAttempts its handlers closed over
    timers,             \* pending setTimeout(connectSocket) callbacks, oldest first (closure's attempts)
    refLive,            \* reconnectTimeoutRef.current designates the newest pending timer
    stale,              \* per pending timer: a connect or a disconnect() happened since it was set
    live,               \* number of sockets created by the hook that are connecting or connected
    emitted,            \* outbound events emitted by the last step
    last,               \* the last operation and its input
    drops,              \* unplanned drops since the last successful connect or user action
    scheduled,          \* retries scheduled since the last successful connect or user action
    budget,             \* remaining inbound events and user actions (ops), and drops, of this run
    startTimers,        \* pending 1 s timers of forceGameStart, oldest first (closure's room code)
    page                \* the Home page: its useState values (now), the values queued by
                        \* setState (pend), its timers, and GameRoom's isFlipping

vars == <<room, isConnected, error, reconnectAttempts, pend, roomRef, socket,
          timers, refLive, stale, live, emitted, last, drops, scheduled, budget, page,
          startTimers>>

----------------------------------------------------------------------------
(* Bounds *)

MaxOps == 2         \* inbound game events and user actions per run
MaxDrops == 1       \* connection drops per run
MaxCodeLen == 7     \* longest room code typed by the user
MaxPlayers == 3     \* longest player list carried by an inbound event
LongDrops == 6      \* connection drops per run of the drop-focused specification

(* Program constants *)

MAX_RECONNECT_ATTEMPTS == 5
RoomCodeLength == 6
FallbackWinnings == 20

----------------------------------------------------------------------------
(* Values *)

Null == <<>>
Some(r) == <<r>>
NoError == "null"
Undef == "undefined"
NoAmount == -1

Sides == {"heads", "tails"}

CreatorSide == "heads"

StatusRank(s) ==
    CASE s = "waiting" -> 1
      [] s = "full" -> 2
      [] s = "playing" -> 3
      [] s = "flipping" -> 4
      [] s = "completed" -> 5
      [] OTHER -> 0

Chars == {"a", "A", "7", " ", "!"}

ToUpperChar(c) == IF c = "a" THEN "A" ELSE c

toUpperCase(s) == [i \in 1..Len(s) |-> ToUpperChar(s[i])]

\* String.prototype.trim on the characters of Chars: the blank is the only white space
RECURSIVE trimStart(_)
trimStart(s) == IF s # <<>> /\ Head(s) = " " THEN trimStart(Tail(s)) ELSE s

RECURSIVE trimEnd(_)
trimEnd(s) ==
    IF s # <<>> /\ s[Len(s)] = " " THEN trimEnd(SubSeq(s, 1, Len(s) - 1)) ELSE s

trim(s) == trimEnd(trimStart(s))

\* the characters accepted by the room code pattern /^[A-Z0-9]{6}$/
RoomCodeChars ==
    {"A", "B", "C", "D", "E", "F", "G", "H", "I", "J", "K", "L", "M",
     "N", "O", "P", "Q", "R", "S", "T", "U", "V", "W", "X", "Y", "Z",
     "0", "1", "2", "3", "4", "5", "6", "7", "8", "9"}

RequiredCodeMsg == "Room code is required"
CodeLengthMsg == "Room code must be exactly 6 characters"
CodeCharsMsg == "Room code can only contain letters and numbers"

\* validateRoomCode without the trim
validateRoomCode_NoTrim(code) ==
    IF Len(code) = 0
    THEN [isValid |-> FALSE, error |-> RequiredCodeMsg]
    ELSE LET trimmedCode == toUpperCase(code)
         IN  IF Len(trimmedCode) # RoomCodeLength
             THEN [isValid |-> FALSE, error |-> CodeLengthMsg]
             ELSE IF \E i \in DOMAIN trimmedCode : trimmedCode[i] \notin RoomCodeChars
             THEN [isValid |-> FALSE, error |-> CodeCharsMsg]
             ELSE [isValid |-> TRUE, error |-> Undef]

validateRoomCode(code) ==
    IF Len(code) = 0
    THEN [isValid |-> FALSE, error |-> RequiredCodeMsg]
    ELSE LET trimmedCode == toUpperCase(trim(code))
         IN  IF Len(trimmedCode) # RoomCodeLength
             THEN [isValid |-> FALSE, error |-> CodeLengthMsg]
             ELSE IF \E i \in DOMAIN trimmedCode : trimmedCode[i] \notin RoomCodeChars
             THEN [isValid |-> FALSE, error |-> CodeCharsMsg]
             ELSE [isValid |-> TRUE, error |-> Undef]

\* strings handed to validateRoomCode: the empty string, and codes of 5 to
\* MaxCodeLen characters whose first and last characters are arbitrary, with or
\* without a blank before and after
ValidateInputs ==
    {<<>>} \cup
    {[i \in 1..l |-> " "]
        \o [i \in 1..n |-> IF i = 1 THEN c1 ELSE IF i = n THEN c2 ELSE "A"]
        \o [i \in 1..r |-> " "] :
        l \in 0..1, r \in 0..1, n \in (RoomCodeLength - 1)..MaxCodeLen,
        c1 \in Chars, c2 \in Chars}

\* room codes are issued by the backend: 6 uppercase alphanumeric characters
ServerCode == <<"A", "A", "A", "A", "A", "A">>
PlaceholderCode == <<"R", "E", "S", "U", "L", "T">>

\* codes the user may type: empty, one character short, too long, and every
\* code of the right length made of any first character followed by A's
JoinCodes ==
    {[i \in 1..n |-> "A"] : n \in {0, RoomCodeLength - 1, MaxCodeLen}}
        \cup {[i \in 1..RoomCodeLength |-> IF i = 1 THEN c ELSE "A"] : c \in Chars}

PlayerName(i) == CASE i = 1 -> "Alice" [] i = 2 -> "Bob" [] OTHER -> "Carol"

\* player lists of inbound events, of lo to hi players: the first player (the
\* creator) holds CreatorSide, the second either side, any further one CreatorSide;
\* the lists of more than two players are those whose second player holds CreatorSide
PlayerListsOf(lo, hi) ==
    {p \in {[i \in 1..n |-> [name |-> PlayerName(i),
                              side |-> IF i = 2 THEN s ELSE CreatorSide]] :
                n \in lo..hi, s \in Sides} :
        Len(p) > 2 => p[2].side = CreatorSide}

PlayerLists == PlayerListsOf(0, MaxPlayers)

InvalidCodeMsg == "Invalid room code format. Room code must be 6 characters."
AlreadyInRoomMsg == "You are already in this room."
NotConnectedMsg == "Not connected to server"
ServerDisconnectMsg == "Disconnected by server. Game may have ended."
ConnectionFailedMsg == "Connection failed. Please refresh the page."
ConnectErrorMsg == "Connection error: xhr poll error"

UnplannedReasons == {"transport close", "ping timeout"}

RoomNotFoundMsg == "Room not found. Please check the room code and try again."
RoomFullMsg == "Room is already full (2/2 players). Please try a different room."
RoomFullTypeMsg == "Room is full. Cannot join this room."
ValidationErrorMsg == "Invalid input provided. Please check your room code and try again."
UnknownServerErrorMsg == "Unknown server error occurred"
JoinFailedMsg == "Failed to join room"
Conflict == 409

\* a string that is neither undefined nor empty
Truthy(t) == t # Undef /\ t # ""

\* a || b on strings
OrText(a, b) == IF Truthy(a) THEN a ELSE b

\* t.trim() is the empty string
IsBlank(t) == t \in {"", "  "}

----------------------------------------------------------------------------
(* Room values and inbound payloads *)

\* { room, playerSide, players } or, when nested is FALSE, a bare room-shaped
\* payload; room is data.room of a room event (or the event payload itself when it
\* is not nested), with a code issued by the backend
RoomEventData ==
    [nested : BOOLEAN,
     room : [code : {ServerCode},
             status : {"waiting", "full", "playing", "flipping", "completed"},
             creator_side : {CreatorSide}],
     players : PlayerLists, playerSide : Sides]

\* the payloads of an event that the backend sends for rooms of the given status
\* with lo or more players; only the nested shape carries a playerSide of its own
RoomEventDataIn(status, lo) ==
    {d \in RoomEventData : /\ d.room.status = status
                            /\ Len(d.players) >= lo
                            /\ (~d.nested => d.playerSide = CreatorSide)}

\* a bare room object (room_status, or an unrecognized event): no playerSide
RoomObjects == {d \in RoomEventData : ~d.nested /\ d.playerSide = CreatorSide}

\* coin_flip_result: { flipResult, players, ... }; the payload has no result / winnings field
FlipResultData ==
    [result : {Undef}, flipResult : Sides, winnings : {NoAmount}, players : PlayerLists]

\* game_completed: { result, flipResult, winnings, ... }: winnings is the pot for the
\* winner and 0 for the loser; the payload has no players field
GameCompletedData ==
    {d \in [result : {"win", "lose"}, flipResult : Sides, winnings : {0, 20, 40},
            players : {<<>>}] : (d.result = "win") <=> (d.winnings > 0)}

\* payloads of error, exception, join_error and join_room_error: null, {}, a
\* string, or an object with some of message, error, type and statusCode
ErrorPayload(shape, message, err, type, statusCode) ==
    [shape |-> shape, message |-> message, error |-> err, type |-> type,
     statusCode |-> statusCode]

ErrorPayloads ==
    {ErrorPayload("null", Undef, Undef, Undef, NoAmount),
     ErrorPayload("empty", Undef, Undef, Undef, NoAmount),
     ErrorPayload("string", "Room not found", Undef, Undef, NoAmount),
     ErrorPayload("object", "Room not found", Undef, Undef, NoAmount),
     ErrorPayload("object", "Room is FULL", Undef, "join_room_error", NoAmount),
     ErrorPayload("object", "Game already started", Undef, Undef, NoAmount),
     ErrorPayload("object", "  ", Undef, "validation_error", NoAmount),
     ErrorPayload("object", Undef, "Room not available", Undef, NoAmount),
     ErrorPayload("object", Undef, Undef, "room_full", NoAmount),
     ErrorPayload("object", Undef, Undef, Undef, Conflict),
     ErrorPayload("object", Undef, Undef, Undef, NoAmount)}

\* !data || (typeof data === 'object' && Object.keys(data).length === 0)
IsEmptyPayload(d) ==
    \/ d.shape \in {"null", "empty"}
    \/ d.shape = "string" /\ d.message = ""

\* JSON.stringify(data) for a payload that is not empty
JsonField(name, value) == "\"" \o name \o "\":\"" \o value \o "\""

JsonOf(d) ==
    IF d.shape = "string"
    THEN "\"" \o d.message \o "\""
    ELSE "{" \o (IF d.message # Undef THEN JsonField("message", d.message) ELSE "")
             \o (IF d.error # Undef THEN JsonField("error", d.error) ELSE "")
             \o (IF d.type # Undef THEN JsonField("type", d.type) ELSE "")
             \o (IF d.statusCode = Conflict THEN "\"statusCode\":409" ELSE "")
             \o "}"

\* the words the handlers and the page look for in a lower-cased text: those that
\* a message of this model includes
BaseWords(t) ==
    CASE t \in {"Room not found", RoomNotFoundMsg} -> {"not found"}
      [] t = "Room not available" -> {"not available"}
      [] t \in {"Room is FULL", RoomFullMsg, RoomFullTypeMsg, "room_full"} -> {"full"}
      [] OTHER -> {}

\* WordsOf(t) are the words that t.toLowerCase() includes: those of the message
\* itself, of the type quoted by 'Server error: <type>', and of the fields of the
\* payload quoted by 'Server exception: <json>' and 'Join error: <json>'
WordsOf(t) ==
    BaseWords(t)
        \cup UNION {BaseWords(d.type) : d \in {e \in ErrorPayloads : t = "Server error: " \o e.type}}
        \cup UNION {BaseWords(d.message) \cup BaseWords(d.error) \cup BaseWords(d.type) :
                       d \in {e \in ErrorPayloads :
                                 \/ t = "Server exception: " \o JsonOf(e)
                                 \/ t = "Join error: " \o JsonOf(e)}}

\* text.toLowerCase().includes(word)
includesLower(t, word) == word \in WordsOf(t)

MakeRoom(r, players, created, joined) ==
    [code |-> r.code, status |-> r.status, creator_side |-> r.creator_side,
     players |-> players, result |-> Undef, personalResult |-> Undef,
     winnings |-> NoAmount, creatorPlayerSide |-> created, joinedPlayerSide |-> joined]

\* the shell used by the result handlers when roomRef.current is null
PlaceholderRoom ==
    [code |-> PlaceholderCode, status |-> Undef, creator_side |-> "heads",
     players |-> <<>>, result |-> Undef, personalResult |-> Undef,
     winnings |-> NoAmount, creatorPlayerSide |-> Undef, joinedPlayerSide |-> Undef]

\* data.room ? { ...data.room, players: data.players } : data
RoomDataOf(d) == MakeRoom(d.room, d.players, Undef, Undef)

\* a || b on strings that may be undefined
OrElse(a, b) == IF a # Undef THEN a ELSE b

----------------------------------------------------------------------------
(* The hook's procedures, as functions of the mutable part of the hook       *)
(* h = [pend, socket, timers, refLive, stale, live, out]                     *)

NoSocket == [st |-> "none", cap |-> 0]

\* a socket in one of these states holds a connection or is opening one
LiveStates == {"connecting", "connected"}

Hook ==
    [pend |-> pend, socket |-> socket, timers |-> timers, refLive |-> refLive,
     stale |-> stale, live |-> live, startTimers |-> startTimers, out |-> <<>>]

Committed ==
    [room |-> room, error |-> error, isConnected |-> isConnected,
     reconnectAttempts |-> reconnectAttempts]

\* a render is scheduled: some queued update changes the committed state
Dirty == pend # Committed \/ page.pend # page.now

setRoom(h, r) == [h EXCEPT !.pend.room = r]
setError(h, e) == [h EXCEPT !.pend.error = e]
safeSetError(h, e) == setError(h, e)
setIsConnected(h, b) == [h EXCEPT !.pend.isConnected = b]

\* socket.current.disconnect(): a connected socket runs its 'disconnect' listener
\* synchronously with reason 'io client disconnect', which only calls setIsConnected(false)
\* the disconnect listener treating 'io client disconnect' as an unplanned drop
SocketClose_Retry(h) ==
    LET h1 == IF h.socket.st = "connected"
              THEN [setIsConnected(h, FALSE) EXCEPT !.pend.reconnectAttempts = @ + 1,
                                                    !.timers = Append(@, h.socket.cap),
                                                    !.stale = Append(@, FALSE),
                                                    !.refLive = TRUE]
              ELSE h
    IN  [h1 EXCEPT !.live = IF h.socket.st \in LiveStates THEN @ - 1 ELSE @]

SocketClose(h) ==
    LET h1 == IF h.socket.st = "connected" THEN setIsConnected(h, FALSE) ELSE h
    IN  [h1 EXCEPT !.live = IF h.socket.st \in LiveStates THEN @ - 1 ELSE @]

\* every timer still pending when the hook connects or disconnects is superseded
Supersede(h) == [h EXCEPT !.stale = [i \in DOMAIN @ |-> TRUE]]

\* connectSocket creating the new socket without disconnecting socket.current
connectSocket_NoTeardown(h, attempts) ==
    [Supersede(h) EXCEPT !.socket = [st |-> "connecting", cap |-> attempts],
                         !.live = @ + 1]

connectSocket(h, attempts) ==
    LET h1 == IF h.socket.st # "none" THEN SocketClose(h) ELSE h
    IN  [Supersede(h1) EXCEPT !.socket = [st |-> "connecting", cap |-> attempts],
                              !.live = @ + 1]

disconnect(h) ==
    LET h1 == IF h.refLive
              THEN [h EXCEPT !.timers = SubSeq(@, 1, Len(@) - 1),
                             !.stale = SubSeq(@, 1, Len(@) - 1),
                             !.refLive = FALSE]
              ELSE h
        h2 == IF h1.socket.st # "none"
              THEN [SocketClose(h1) EXCEPT !.socket = NoSocket]
              ELSE h1
    IN  [Supersede(h2) EXCEPT !.pend = [room |-> Null, error |-> NoError,
                                        isConnected |-> FALSE, reconnectAttempts |-> 0]]

\* sendEvent dropping the event silently while not connected
sendEvent_Silent(h, msg) ==
    IF h.socket.st # "connected"
    THEN h
    ELSE [h EXCEPT !.out = Append(@, msg)]

sendEvent(h, msg) ==
    IF h.socket.st # "connected"
    THEN setError(h, NotConnectedMsg)
    ELSE [h EXCEPT !.out = Append(@, msg)]

createRoom(h, side) == sendEvent(h, [event |-> "create_room", arg |-> side])

\* joinRoom without the length test
joinRoom_NoLengthCheck(h, code) ==
    IF Len(code) = 0
    THEN setError(h, InvalidCodeMsg)
    ELSE IF room # Null /\ room[1].code = toUpperCase(code)
    THEN setError(h, AlreadyInRoomMsg)
    ELSE sendEvent(setError(h, NoError), [event |-> "join_room", arg |-> toUpperCase(code)])

\* joinRoom comparing the code as typed with the room's code
joinRoom_NoUpperCase(h, code) ==
    IF Len(code) = 0 \/ Len(code) # RoomCodeLength
    THEN setError(h, InvalidCodeMsg)
    ELSE IF room # Null /\ room[1].code = code
    THEN setError(h, AlreadyInRoomMsg)
    ELSE sendEvent(setError(h, NoError), [event |-> "join_room", arg |-> toUpperCase(code)])

joinRoom(h, code) ==
    IF Len(code) = 0 \/ Len(code) # RoomCodeLength
    THEN setError(h, InvalidCodeMsg)
    ELSE IF room # Null /\ room[1].code = toUpperCase(code)
    THEN setError(h, AlreadyInRoomMsg)
    ELSE sendEvent(setError(h, NoError), [event |-> "join_room", arg |-> toUpperCase(code)])

\* forceGameStart: asks for the room's status now and sets the untracked 1 s timer
\* that sends flip_coin for the room code it closed over
forceGameStart(h) ==
    IF room # Null
    THEN [sendEvent(h, [event |-> "get_room_status", arg |-> room[1].code])
              EXCEPT !.startTimers = Append(@, room[1].code)]
    ELSE h

\* forceReconnect without setReconnectAttempts(0)
forceReconnect_NoReset(h) ==
    IF ~isConnected
    THEN connectSocket(h, reconnectAttempts)
    ELSE h

forceReconnect(h) ==
    IF ~isConnected
    THEN connectSocket([h EXCEPT !.pend.reconnectAttempts = 0], reconnectAttempts)
    ELSE h

\* clearRoom implemented as a full disconnect()
clearRoom_Disconnect(h) == disconnect(h)

clearRoom(h) == setError(setRoom(h, Null), NoError)

\* the connect listener without safeSetError(null)
OnConnect_KeepError(h) ==
    LET h1 == setIsConnected(h, TRUE)
    IN  [h1 EXCEPT !.pend.reconnectAttempts = 0,
                   !.socket.st = "connected",
                   !.out = Append(@, [event |-> "ping", arg |-> <<>>])]

\* socket.current.on('connect')
OnConnect(h) ==
    LET h1 == safeSetError(setIsConnected(h, TRUE), NoError)
    IN  [h1 EXCEPT !.pend.reconnectAttempts = 0,
                   !.socket.st = "connected",
                   !.out = Append(@, [event |-> "ping", arg |-> <<>>])]

\* the disconnect listener surfacing the warning for every server-initiated close
OnDisconnect_AlwaysWarn(h, reason) ==
    LET h1 == setIsConnected(h, FALSE)
    IN  IF reason = "io server disconnect"
        THEN [safeSetError(h1, ServerDisconnectMsg) EXCEPT !.socket.st = "closed",
                                                           !.live = @ - 1]
        ELSE IF h.socket.cap < MAX_RECONNECT_ATTEMPTS
        THEN [h1 EXCEPT !.pend.reconnectAttempts = @ + 1,
                        !.timers = Append(@, h.socket.cap),
                        !.stale = Append(@, FALSE),
                        !.refLive = TRUE,
                        !.socket.st = "connecting"]
        ELSE [safeSetError(h1, ConnectionFailedMsg) EXCEPT !.socket.st = "connecting"]

\* the disconnect listener without the 'io server disconnect' branch: a
\* server-initiated close is retried like any other drop
OnDisconnect_ServerRetry(h, reason) ==
    LET h1 == setIsConnected(h, FALSE)
        closed == IF reason = "io server disconnect"
                  THEN [h1 EXCEPT !.socket.st = "closed", !.live = @ - 1]
                  ELSE [h1 EXCEPT !.socket.st = "connecting"]
    IN  IF h.socket.cap < MAX_RECONNECT_ATTEMPTS
        THEN [closed EXCEPT !.pend.reconnectAttempts = @ + 1,
                            !.timers = Append(@, h.socket.cap),
                            !.stale = Append(@, FALSE),
                            !.refLive = TRUE]
        ELSE safeSetError(closed, ConnectionFailedMsg)

\* socket.current.on('disconnect') for a close that was not made locally: after
\* 'io server disconnect' the socket stays closed, after any other reason the
\* library reconnects it
OnDisconnect(h, reason) ==
    LET h1 == setIsConnected(h, FALSE)
        currentRoom == roomRef
    IN  IF reason = "io server disconnect"
        THEN LET h2 == IF currentRoom # Null /\ currentRoom[1].status = "completed"
                       THEN h1
                       ELSE safeSetError(h1, ServerDisconnectMsg)
             IN  [h2 EXCEPT !.socket.st = "closed", !.live = @ - 1]
        ELSE IF h.socket.cap < MAX_RECONNECT_ATTEMPTS
        THEN [h1 EXCEPT !.pend.reconnectAttempts = @ + 1,
                        !.timers = Append(@, h.socket.cap),
                        !.stale = Append(@, FALSE),
                        !.refLive = TRUE,
                        !.socket.st = "connecting"]
        ELSE [safeSetError(h1, ConnectionFailedMsg) EXCEPT !.socket.st = "connecting"]

\* socket.current.on('connect_error')
OnConnectError(h) == setIsConnected(safeSetError(h, ConnectErrorMsg), FALSE)

----------------------------------------------------------------------------
(* Inbound game event listeners *)

\* socket.current.on(ROOM_CREATED)
OnRoomCreated(h, d) ==
    LET roomData == IF d.nested
                    THEN MakeRoom(d.room, d.players, d.playerSide, Undef)
                    ELSE RoomDataOf(d)
    IN  safeSetError(setRoom(h, Some(roomData)), NoError)

\* socket.current.on(ROOM_JOINED)
OnRoomJoined(h, d) ==
    LET roomData == IF d.nested
                    THEN MakeRoom(d.room, d.players, Undef, d.playerSide)
                    ELSE RoomDataOf(d)
    IN  safeSetError(setRoom(h, Some(roomData)), NoError)

\* socket.current.on(ROOM_READY): the check of the two sides only logs and toasts
OnRoomReady(h, d) == safeSetError(setRoom(h, Some(RoomDataOf(d))), NoError)

\* socket.current.on(COIN_FLIP_STARTED): setRoom(prev => prev ? {...prev, status} : null)
OnCoinFlipStarted(h) ==
    IF h.pend.room # Null
    THEN setRoom(h, Some([h.pend.room[1] EXCEPT !.status = "flipping"]))
    ELSE h

\* the coin_flip_result listener reading data.result instead of data.flipResult
OnCoinFlipResult_WrongField(h, d) ==
    LET currentRoom == IF roomRef # Null THEN roomRef[1] ELSE PlaceholderRoom
        updatedRoom == [currentRoom EXCEPT !.status = "completed",
                                           !.result = d.result,
                                           !.players = d.players]
    IN  safeSetError(setRoom(h, Some(updatedRoom)), NoError)

\* socket.current.on(COIN_FLIP_RESULT)
OnCoinFlipResult(h, d) ==
    LET currentRoom == IF roomRef # Null THEN roomRef[1] ELSE PlaceholderRoom
        updatedRoom == [currentRoom EXCEPT !.status = "completed",
                                           !.result = d.flipResult,
                                           !.players = d.players]
    IN  safeSetError(setRoom(h, Some(updatedRoom)), NoError)

\* socket.current.on(GAME_COMPLETED)
OnGameCompleted(h, d) ==
    LET currentRoom == IF roomRef # Null THEN roomRef[1] ELSE PlaceholderRoom
        personalizedResult == [currentRoom EXCEPT !.status = "completed",
                                                  !.result = d.flipResult,
                                                  !.personalResult = d.result,
                                                  !.winnings = d.winnings]
    IN  safeSetError(setRoom(h, Some(personalizedResult)), NoError)

\* the catch-all listener always recording its default winnings
OnPossibleResultEvent_DefaultWinnings(h, d) ==
    IF d.result # Undef \/ d.flipResult # Undef
    THEN IF roomRef # Null
         THEN LET resultData ==
                      [roomRef[1] EXCEPT
                           !.status = "completed",
                           !.result = OrElse(d.result, d.flipResult),
                           !.personalResult = IF d.result = "win" THEN "win" ELSE "lose",
                           !.winnings = IF d.result = "win" THEN FallbackWinnings ELSE 0]
              IN  safeSetError(setRoom(h, Some(resultData)), NoError)
         ELSE h
    ELSE h

\* possibleResultEvents.forEach(eventName => socket.on(eventName, ...)): registered after
\* the dedicated listeners, also under the names coin_flip_result and game_completed
OnPossibleResultEvent(h, d) ==
    IF d.result # Undef \/ d.flipResult # Undef
    THEN IF roomRef # Null
         THEN LET resultData ==
                      [roomRef[1] EXCEPT
                           !.status = "completed",
                           !.result = OrElse(d.result, d.flipResult),
                           !.personalResult = IF d.result = "win" THEN "win" ELSE "lose",
                           !.winnings = IF d.winnings # NoAmount /\ d.winnings # 0
                                        THEN d.winnings
                                        ELSE IF d.result = "win" THEN FallbackWinnings ELSE 0]
              IN  safeSetError(setRoom(h, Some(resultData)), NoError)
         ELSE h
    ELSE h

\* socket.current.on(ROOM_STATUS)
OnRoomStatus(h, d) == setRoom(h, Some(RoomDataOf(d)))

\* the onAny listener absorbing the room without safeSetError(null)
OnAnyUnknown_KeepError(h, d, roomShaped) ==
    IF roomShaped
    THEN setRoom(h, Some(RoomDataOf(d)))
    ELSE h

\* socket.current.onAny for an event name that is not among knownEvents
OnAnyUnknown(h, d, roomShaped) ==
    IF roomShaped
    THEN safeSetError(setRoom(h, Some(RoomDataOf(d))), NoError)
    ELSE h

\* the message computed by the ERROR listener for a payload that is not empty
ErrorMessageOf(d) ==
    IF d.shape = "string"
    THEN d.message
    ELSE LET possibleMessage == OrText(d.message, d.error)
         IN  IF Truthy(possibleMessage) /\ ~IsBlank(possibleMessage)
             THEN IF \/ includesLower(possibleMessage, "not found")
                     \/ includesLower(possibleMessage, "not available")
                  THEN RoomNotFoundMsg
                  ELSE IF includesLower(possibleMessage, "full")
                  THEN RoomFullMsg
                  ELSE possibleMessage
             ELSE IF Truthy(d.type)
             THEN CASE d.type = "validation_error" -> ValidationErrorMsg
                    [] d.type = "room_not_found" -> RoomNotFoundMsg
                    [] d.type = "join_room_error" -> RoomFullTypeMsg
                    [] d.type = "room_full" -> RoomFullTypeMsg
                    [] OTHER -> "Server error: " \o d.type
             ELSE UnknownServerErrorMsg

\* the ERROR listener without the test for an empty payload
OnError_SurfaceEmpty(h, d) ==
    safeSetError(h, IF d.shape \in {"null", "empty"}
                    THEN UnknownServerErrorMsg
                    ELSE ErrorMessageOf(d))

\* the ERROR listener asking for the room again after an error
OnError_Retry(h, d) ==
    IF IsEmptyPayload(d)
    THEN h
    ELSE [safeSetError(h, ErrorMessageOf(d)) EXCEPT
              !.out = Append(@, [event |-> "get_room_status", arg |-> <<>>])]

\* socket.current.on(ERROR)
OnError(h, d) ==
    IF IsEmptyPayload(d) THEN h ELSE safeSetError(h, ErrorMessageOf(d))

\* socket.current.on('exception')
OnException(h, d) ==
    IF IsEmptyPayload(d) THEN h ELSE safeSetError(h, "Server exception: " \o JsonOf(d))

\* socket.current.on('join_error')
OnJoinError(h, d) ==
    IF IsEmptyPayload(d) THEN h ELSE safeSetError(h, "Join error: " \o JsonOf(d))

\* the message computed by the JOIN_ROOM_ERROR listener for a payload that is not empty
JoinRoomErrorMessageOf(d) ==
    IF d.shape = "string"
    THEN d.message
    ELSE IF d.type = "join_room_error" /\ Truthy(d.message)
    THEN IF includesLower(d.message, "full")
         THEN RoomFullMsg
         ELSE IF \/ includesLower(d.message, "not found")
                 \/ includesLower(d.message, "not available")
         THEN RoomNotFoundMsg
         ELSE d.message
    ELSE IF d.statusCode = Conflict \/ (d.message # Undef /\ includesLower(d.message, "full"))
    THEN RoomFullMsg
    ELSE IF Truthy(d.message)
    THEN d.message
    ELSE IF Truthy(d.error)
    THEN d.error
    ELSE JoinFailedMsg

\* socket.current.on(JOIN_ROOM_ERROR)
OnJoinRoomError(h, d) ==
    IF IsEmptyPayload(d) THEN h ELSE safeSetError(h, JoinRoomErrorMessageOf(d))

----------------------------------------------------------------------------
(* The Home page and its GameRoom                                            *)
(* pg = [now, pend, reconnectTimer, returnTimer, flipTimer, left]; v, w are   *)
(* what a render sees: the committed values of the hook and of the page; left *)
(* records that the user left a room and has not submitted a form since       *)

\* the useState values of Home at mount, with GameRoom's isFlipping
PageValues ==
    [gameMode |-> "menu", currentPlayer |-> Null, isAutoReconnecting |-> FALSE,
     finalGameResult |-> Null, isFlipping |-> FALSE]

\* the hook used on its own: no page state, no page timer
PageIdle ==
    [now |-> PageValues, pend |-> PageValues, reconnectTimer |-> FALSE,
     returnTimer |-> FALSE, flipTimer |-> FALSE, left |-> FALSE]

\* Home after its first render: in the menu and not connected, the auto-reconnect
\* effect has called setIsAutoReconnecting(true) and set its 1 s timer
PageAtMount ==
    [PageIdle EXCEPT !.pend.isAutoReconnecting = TRUE, !.reconnectTimer = TRUE]

\* the names a user types in the forms: that of a participant, and another one
ViewerNames == {PlayerName(1), "Zoe"}

\* what a render of Home sees
ViewOf(c, n) ==
    [room |-> c.room, isConnected |-> c.isConnected, error |-> c.error,
     reconnectAttempts |-> c.reconnectAttempts, gameMode |-> n.gameMode,
     currentPlayer |-> n.currentPlayer, isAutoReconnecting |-> n.isAutoReconnecting,
     finalGameResult |-> n.finalGameResult]

\* const gameRoom = finalGameResult || room
gameRoomOf(v) == IF v.finalGameResult # Null THEN v.finalGameResult ELSE v.room

\* Home renders <GameRoom>: gameMode is "game" and there is a gameRoom (gamePlayer
\* is then never null)
GameRoomShown(v) == v.gameMode = "game" /\ gameRoomOf(v) # Null

\* the error texts that send the create and join forms back to the menu
IsRoomUnusable(e) ==
    \/ includesLower(e, "full")
    \/ includesLower(e, "not found")
    \/ includesLower(e, "not available")

\* GameRoom's effect on [room.status]: it runs when GameRoom mounts and when the
\* status changed, after the cleanup of its previous run; unmounting runs the
\* cleanup and drops isFlipping
FlipEffect(v, w, pg) ==
    IF ~GameRoomShown(w)
    THEN [pg EXCEPT !.flipTimer = FALSE, !.now.isFlipping = FALSE, !.pend.isFlipping = FALSE]
    ELSE LET mounting == ~GameRoomShown(v)
             fresh == IF mounting
                      THEN [pg EXCEPT !.flipTimer = FALSE, !.now.isFlipping = FALSE,
                                      !.pend.isFlipping = FALSE]
                      ELSE pg
         IN  IF mounting \/ gameRoomOf(v)[1].status # gameRoomOf(w)[1].status
             THEN IF gameRoomOf(w)[1].status = "flipping"
                  THEN [fresh EXCEPT !.pend.isFlipping = TRUE, !.flipTimer = TRUE]
                  ELSE [fresh EXCEPT !.flipTimer = FALSE]
             ELSE fresh

\* the first index of a player with this name, then with this side, or 0
FindPlayer(players, name, side) ==
    LET byName == {i \in 1..Len(players) : Truthy(name) /\ players[i].name = name}
        bySide == {i \in 1..Len(players) : players[i].side = side}
        Min(S) == CHOOSE i \in S : \A j \in S : i <= j
    IN  IF byName # {} THEN Min(byName) ELSE IF bySide # {} THEN Min(bySide) ELSE 0

\* Home's effect on [room?.players, room?.code]: the typed player is replaced by the
\* participant found by name, then by side; a participant's id is its name here
SyncPlayerEffect(v, w, pg) ==
    IF /\ v.room # w.room
       /\ w.room # Null
       /\ w.currentPlayer # Null
    THEN LET cp == w.currentPlayer
             i == FindPlayer(w.room[1].players, cp.name, cp.side)
         IN  IF i # 0 /\ cp.id # w.room[1].players[i].name
             THEN [pg EXCEPT !.pend.currentPlayer =
                       [id |-> w.room[1].players[i].name,
                        name |-> w.room[1].players[i].name,
                        side |-> w.room[1].players[i].side,
                        choice |-> cp.choice]]
             ELSE pg
    ELSE pg

\* Home's effect on [room, currentPlayer, gameMode]
EnterGameEffect(v, w, pg) ==
    IF /\ <<v.room, v.currentPlayer, v.gameMode>> # <<w.room, w.currentPlayer, w.gameMode>>
       /\ w.room # Null
       /\ w.currentPlayer # Null
       /\ w.gameMode # "game"
    THEN [pg EXCEPT !.pend.gameMode = "game"]
    ELSE pg

\* Home's effect on [gameMode, isConnected, isAutoReconnecting, forceReconnect];
\* forceReconnect changes with isConnected and with connectSocket (reconnectAttempts)
AutoReconnectEffect(v, w, pg) ==
    IF <<v.gameMode, v.isConnected, v.isAutoReconnecting, v.reconnectAttempts>>
           # <<w.gameMode, w.isConnected, w.isAutoReconnecting, w.reconnectAttempts>>
    THEN IF w.gameMode = "menu" /\ ~w.isConnected /\ ~w.isAutoReconnecting
         THEN [pg EXCEPT !.pend.isAutoReconnecting = TRUE, !.reconnectTimer = TRUE]
         ELSE IF w.isConnected /\ w.isAutoReconnecting
         THEN [pg EXCEPT !.pend.isAutoReconnecting = FALSE, !.reconnectTimer = FALSE]
         ELSE [pg EXCEPT !.reconnectTimer = FALSE]
    ELSE pg

\* the effect as it would be if finalGameResult followed the hook's room
FinalResultEffect_Mirror(v, w, pg) ==
    IF <<v.room, v.gameMode>> # <<w.room, w.gameMode>>
    THEN IF w.room # Null /\ w.room[1].status = "completed" /\ Truthy(w.room[1].result)
         THEN [pg EXCEPT !.pend.finalGameResult = w.room,
                         !.pend.gameMode = IF w.gameMode # "game" THEN "game" ELSE @]
         ELSE [pg EXCEPT !.pend.finalGameResult = Null]
    ELSE pg

\* Home's effect on [room, gameMode]: the completed room is kept as finalGameResult
FinalResultEffect(v, w, pg) ==
    IF /\ <<v.room, v.gameMode>> # <<w.room, w.gameMode>>
       /\ w.room # Null
       /\ w.room[1].status = "completed"
       /\ Truthy(w.room[1].result)
    THEN [pg EXCEPT !.pend.finalGameResult = w.room,
                    !.pend.gameMode = IF w.gameMode # "game" THEN "game" ELSE @]
    ELSE pg

\* Home's effect on [error, gameMode]: in the create and join forms, an error that
\* says the room is unusable sets the 3 s timer back to the menu
ErrorReturnEffect(v, w, pg) ==
    IF <<v.error, v.gameMode>> # <<w.error, w.gameMode>>
    THEN [pg EXCEPT !.returnTimer =
              /\ w.error # NoError
              /\ w.gameMode \in {"create", "join"}
              /\ IsRoomUnusable(w.error)]
    ELSE pg

\* the effects of one render, GameRoom's first, then Home's in their order
PageEffects(v, w, pg) ==
    ErrorReturnEffect(v, w,
        FinalResultEffect(v, w,
            AutoReconnectEffect(v, w,
                EnterGameEffect(v, w,
                    SyncPlayerEffect(v, w,
                        FlipEffect(v, w, pg))))))

\* the player object built by handleRoomCreated and handleRoomJoined
TempPlayer(name, side) == [id |-> "temp-id", name |-> name, side |-> side, choice |-> side]

\* GameRoom resolving the viewer by side before name
actualCurrentPlayer_SideFirst(players, cp) ==
    LET bySide == {i \in 1..Len(players) : players[i].side = OrText(cp.side, cp.choice)}
        byName == {i \in 1..Len(players) : Truthy(cp.name) /\ players[i].name = cp.name}
        Min(S) == CHOOSE i \in S : \A j \in S : i <= j
    IN  IF bySide # {} THEN Min(bySide)
        ELSE IF byName # {} THEN Min(byName)
        ELSE IF Len(players) > 0 THEN 1
        ELSE 0

\* GameRoom's actualCurrentPlayer, as an index into room.players (0 is null): the
\* first player with the viewer's name, else the first with the viewer's side,
\* else the first player
actualCurrentPlayer(players, cp) ==
    LET byName == {i \in 1..Len(players) : Truthy(cp.name) /\ players[i].name = cp.name}
        bySide == {i \in 1..Len(players) : players[i].side = OrText(cp.side, cp.choice)}
        Min(S) == CHOOSE i \in S : \A j \in S : i <= j
    IN  IF byName # {} THEN Min(byName)
        ELSE IF bySide # {} THEN Min(bySide)
        ELSE IF Len(players) > 0 THEN 1
        ELSE 0

\* GameRoom's otherPlayer, as an index (0 is null): the first player whose id is not
\* the id of actualCurrentPlayer
otherPlayer(players, cp) ==
    LET a == actualCurrentPlayer(players, cp)
        others == {i \in 1..Len(players) : a # 0 /\ players[i].id # players[a].id}
    IN  IF others # {} THEN CHOOSE i \in others : \A j \in others : i <= j ELSE 0

\* the Game Results card is rendered: isFinished && room.result
ResultShown(r) == r.status = "completed" /\ Truthy(r.result)

\* actualCurrentPlayer?.side || currentPlayer.side || currentPlayer.choice
actualPlayerSide(r, cp) ==
    LET a == actualCurrentPlayer(r.players, cp)
    IN  OrText(IF a # 0 THEN r.players[a].side ELSE Undef, OrText(cp.side, cp.choice))

\* GameRoom's playerWon
playerWon(r, cp) == r.personalResult = "win" \/ actualPlayerSide(r, cp) = r.result

----------------------------------------------------------------------------
(* Actions *)

Store(h) ==
    /\ pend' = h.pend
    /\ socket' = h.socket
    /\ timers' = h.timers
    /\ refLive' = h.refLive
    /\ stale' = h.stale
    /\ live' = h.live
    /\ startTimers' = h.startTimers
    /\ emitted' = h.out

KeepCommitted == UNCHANGED <<room, isConnected, error, reconnectAttempts, roomRef, page>>

\* one inbound game event is delivered to the listeners of the connected socket
Inbound(op, d, h) ==
    /\ socket.st = "connected"
    /\ budget.ops > 0
    /\ Store(h)
    /\ last' = [op |-> op, data |-> d]
    /\ budget' = [budget EXCEPT !.ops = @ - 1]
    /\ KeepCommitted
    /\ UNCHANGED <<drops, scheduled>>

\* a user action of the facade
UserOp(op, d, h) ==
    /\ budget.ops > 0
    /\ Store(h)
    /\ last' = [op |-> op, data |-> d]
    /\ budget' = [budget EXCEPT !.ops = @ - 1]
    /\ KeepCommitted

\* React renders: the queued updates are committed, roomRef is synced, and the
\* connection effect (deps [connectSocket, disconnect]) is cleaned up and re-run when
\* connectSocket changed, that is when reconnectAttempts changed
Render ==
    /\ Dirty
    /\ room' = pend.room
    /\ isConnected' = pend.isConnected
    /\ error' = pend.error
    /\ reconnectAttempts' = pend.reconnectAttempts
    /\ roomRef' = pend.room
    /\ Store(IF pend.reconnectAttempts # reconnectAttempts
             THEN connectSocket(disconnect(Hook), pend.reconnectAttempts)
             ELSE Hook)
    /\ last' = [op |-> "render", data |-> <<>>]
    /\ UNCHANGED <<drops, scheduled, budget, page>>

\* the socket (or the library's own reconnection of it) completes its connection;
\* a network round trip is longer than the flush of a scheduled render
SocketConnect ==
    /\ socket.st = "connecting"
    /\ ~Dirty
    /\ Store(OnConnect(Hook))
    /\ last' = [op |-> "connect", data |-> <<>>]
    /\ drops' = 0
    /\ scheduled' = 0
    /\ KeepCommitted
    /\ UNCHANGED budget

\* the connection closes without a local disconnect()
SocketDisconnect(reason) ==
    /\ \/ socket.st = "connected"
       \/ socket.st = "connecting" /\ ~Dirty
    /\ budget.drops > 0
    /\ Store(OnDisconnect(Hook, reason))
    /\ last' = [op |-> "disconnect", data |-> reason]
    /\ drops' = IF reason \in UnplannedReasons THEN drops + 1 ELSE drops
    /\ scheduled' = scheduled + (Len(OnDisconnect(Hook, reason).timers) - Len(timers))
    /\ budget' = [budget EXCEPT !.drops = @ - 1]
    /\ KeepCommitted

SocketConnectError ==
    /\ socket.st = "connecting"
    /\ ~Dirty
    /\ Store(OnConnectError(Hook))
    /\ last' = [op |-> "connect_error", data |-> <<>>]
    /\ KeepCommitted
    /\ UNCHANGED <<drops, scheduled, budget>>

\* the oldest reconnect timer expires (RECONNECT_DELAY after it was set, long after
\* any render scheduled before it) and calls the connectSocket it closed over
TimerFire ==
    /\ timers # <<>>
    /\ ~Dirty
    /\ Store(connectSocket([Hook EXCEPT !.timers = Tail(@),
                                        !.stale = Tail(@),
                                        !.refLive = IF Len(timers) = 1 THEN FALSE ELSE @],
                           Head(timers)))
    /\ last' = [op |-> "timer", data |-> Head(stale)]
    /\ KeepCommitted
    /\ UNCHANGED <<drops, scheduled, budget>>

RoomCreated == \E d \in RoomEventDataIn("waiting", 0) : Inbound("room_created", d, OnRoomCreated(Hook, d))

RoomJoined == \E d \in RoomEventDataIn("full", 2) : Inbound("room_joined", d, OnRoomJoined(Hook, d))

\* room_ready: { room, players }, nested or bare, without playerSide
RoomReady ==
    \E d \in {x \in RoomEventDataIn("full", 2) : x.playerSide = CreatorSide} : Inbound("room_ready", d, OnRoomReady(Hook, d))

CoinFlipStarted == Inbound("coin_flip_started", <<>>, OnCoinFlipStarted(Hook))

CoinFlipResult ==
    \E d \in FlipResultData :
        Inbound("coin_flip_result", d, OnPossibleResultEvent(OnCoinFlipResult(Hook, d), d))

GameCompleted ==
    \E d \in GameCompletedData :
        Inbound("game_completed", d, OnPossibleResultEvent(OnGameCompleted(Hook, d), d))

RoomStatus == \E d \in RoomObjects : Inbound("room_status", d, OnRoomStatus(Hook, d))

\* an event under a name that is not in knownEvents, with or without a room-shaped payload
UnknownEvent ==
    \E d \in RoomObjects, roomShaped \in BOOLEAN :
        Inbound("unknown", [d EXCEPT !.nested = roomShaped], OnAnyUnknown(Hook, d, roomShaped))

\* a result payload under one of the alternate names of possibleResultEvents
\* (gameResult, flip_result, ...): onAny finds no room field, the catch-all listener runs
AltResultEvent ==
    \E d \in FlipResultData \cup GameCompletedData :
        Inbound("alt_result", d, OnPossibleResultEvent(OnAnyUnknown(Hook, d, FALSE), d))

ErrorEvent == \E d \in ErrorPayloads : Inbound("error", d, OnError(Hook, d))

ExceptionEvent == \E d \in ErrorPayloads : Inbound("exception", d, OnException(Hook, d))

JoinErrorEvent == \E d \in ErrorPayloads : Inbound("join_error", d, OnJoinError(Hook, d))

JoinRoomErrorEvent ==
    \E d \in ErrorPayloads : Inbound("join_room_error", d, OnJoinRoomError(Hook, d))

\* the side argument of createRoom at run time: a side, the empty string or undefined
CreateRoom ==
    \E side \in Sides \cup {"", "undefined"} :
        /\ UserOp("createRoom", side, createRoom(Hook, side))
        /\ UNCHANGED <<drops, scheduled>>

JoinRoom ==
    \E code \in JoinCodes :
        /\ UserOp("joinRoom", code, joinRoom(Hook, code))
        /\ UNCHANGED <<drops, scheduled>>

ForceReconnect ==
    /\ UserOp("forceReconnect", reconnectAttempts, forceReconnect(Hook))
    /\ drops' = IF ~isConnected THEN 0 ELSE drops
    /\ scheduled' = IF ~isConnected THEN 0 ELSE scheduled

ForceGameStart ==
    /\ UserOp("forceGameStart", room, forceGameStart(Hook))
    /\ UNCHANGED <<drops, scheduled>>

\* the oldest 1 s timer of forceGameStart expires, long after any render scheduled
\* before it: sendEvent(FLIP_COIN, { code }) on whatever socket there is by then
StartTimerFire ==
    /\ startTimers # <<>>
    /\ ~Dirty
    /\ Store(sendEvent([Hook EXCEPT !.startTimers = Tail(@)],
                       [event |-> "flip_coin", arg |-> Head(startTimers)]))
    /\ last' = [op |-> "startTimer", data |-> Head(startTimers)]
    /\ KeepCommitted
    /\ UNCHANGED <<drops, scheduled, budget>>

ClearRoom ==
    /\ UserOp("clearRoom", <<>>, clearRoom(Hook))
    /\ UNCHANGED <<drops, scheduled>>

Disconnect ==
    /\ UserOp("userDisconnect", <<>>, disconnect(Hook))
    /\ drops' = 0
    /\ scheduled' = 0

----------------------------------------------------------------------------
(* Actions of the page *)

KeepHookCommitted == UNCHANGED <<room, isConnected, error, reconnectAttempts, roomRef>>

\* React renders Home: the queued updates of the hook and of the page are committed,
\* the connection effect runs as in Render, then the effects of GameRoom and Home
PageRender ==
    /\ Dirty
    /\ room' = pend.room
    /\ isConnected' = pend.isConnected
    /\ error' = pend.error
    /\ reconnectAttempts' = pend.reconnectAttempts
    /\ roomRef' = pend.room
    /\ Store(IF pend.reconnectAttempts # reconnectAttempts
             THEN connectSocket(disconnect(Hook), pend.reconnectAttempts)
             ELSE Hook)
    /\ page' = PageEffects(ViewOf(Committed, page.now), ViewOf(pend, page.pend),
                           [page EXCEPT !.now = page.pend])
    /\ last' = [op |-> "render", data |-> <<>>]
    /\ UNCHANGED <<drops, scheduled, budget>>

\* a click that only calls setGameMode; the user clicks what has been rendered
Navigate(op, mode) ==
    /\ ~Dirty
    /\ page' = [page EXCEPT !.pend.gameMode = mode]
    /\ last' = [op |-> op, data |-> mode]
    /\ KeepHookCommitted
    /\ UNCHANGED <<pend, socket, timers, refLive, stale, live, emitted, drops, scheduled,
                   budget, startTimers>>

\* the Create Room button of the menu, disabled while not connected
OpenCreate ==
    /\ page.now.gameMode = "menu"
    /\ isConnected
    /\ Navigate("openCreate", "create")

\* the Join Room button of the menu, disabled while not connected
OpenJoin ==
    /\ page.now.gameMode = "menu"
    /\ isConnected
    /\ Navigate("openJoin", "join")

\* the Back to Menu button under the create and join forms
BackToMenu ==
    /\ page.now.gameMode \in {"create", "join"}
    /\ Navigate("backToMenu", "menu")

\* a handler of Home that calls the hook and queues page updates, run by a click
\* on what has been rendered
PageOp(op, d, h, pg) ==
    /\ ~Dirty
    /\ budget.ops > 0
    /\ Store(h)
    /\ page' = pg
    /\ last' = [op |-> op, data |-> d]
    /\ budget' = [budget EXCEPT !.ops = @ - 1]
    /\ KeepHookCommitted
    /\ UNCHANGED <<drops, scheduled>>

\* the events the backend sends to the page: room_joined for a room of two players
\* in the nested shape, coin_flip_result with the two players, and the errors that
\* answer a create or a join
PageRoomData == {d \in RoomEventDataIn("full", 2) : d.nested /\ Len(d.players) = 2}

PageErrors ==
    {d \in ErrorPayloads :
        /\ d.shape = "object"
        /\ \/ d.message \in {"Room not found", "Game already started"}
           \/ d.statusCode = Conflict}

JoinedOnPage == \E d \in PageRoomData : Inbound("room_joined", d, OnRoomJoined(Hook, d))

ResultOnPage ==
    \E d \in {x \in FlipResultData : x.players \in {y.players : y \in PageRoomData}} :
        Inbound("coin_flip_result", d, OnPossibleResultEvent(OnCoinFlipResult(Hook, d), d))

ErrorOnPage == \E d \in PageErrors : Inbound("error", d, OnError(Hook, d))

JoinRoomErrorOnPage ==
    \E d \in PageErrors : Inbound("join_room_error", d, OnJoinRoomError(Hook, d))

\* the create form is submitted
HandleRoomCreated ==
    /\ page.now.gameMode = "create"
    /\ \E name \in ViewerNames, choice \in Sides :
           PageOp("handleRoomCreated", choice, createRoom(Hook, choice),
                  [page EXCEPT !.pend.currentPlayer = TempPlayer(name, choice),
                               !.pend.gameMode = "game",
                               !.left = FALSE])

\* the join form is submitted with a code it accepts, handed to onRoomJoined
\* trimmed and in upper case
HandleRoomJoined ==
    /\ page.now.gameMode = "join"
    /\ \E name \in ViewerNames,
          code \in {toUpperCase(trim(c)) : c \in {x \in JoinCodes : validateRoomCode(x).isValid}} :
           PageOp("handleRoomJoined", code, joinRoom(Hook, code),
                  [page EXCEPT !.pend.currentPlayer = TempPlayer(name, "heads"),
                               !.pend.gameMode = "game",
                               !.left = FALSE])

\* the Leave Room button of GameRoom and of the loading screen
HandleLeaveRoom ==
    /\ page.now.gameMode = "game"
    /\ PageOp("handleLeaveRoom", <<>>, clearRoom(Hook),
              [page EXCEPT !.pend.currentPlayer = Null,
                           !.pend.finalGameResult = Null,
                           !.pend.gameMode = "menu",
                           !.left = TRUE])

\* a timer of the page expires, long after any render scheduled before it
PageTimer(op, pg) ==
    /\ ~Dirty
    /\ page' = pg
    /\ last' = [op |-> op, data |-> <<>>]
    /\ KeepHookCommitted
    /\ UNCHANGED <<pend, socket, timers, refLive, stale, live, emitted, drops, scheduled,
                   budget, startTimers>>

\* the 3 s timer of the error effect: setGameMode("menu")
ReturnTimerFire ==
    /\ page.returnTimer
    /\ PageTimer("returnTimer", [page EXCEPT !.returnTimer = FALSE, !.pend.gameMode = "menu"])

\* the 2 s timer of GameRoom: setIsFlipping(false)
FlipTimerFire ==
    /\ page.flipTimer
    /\ PageTimer("flipTimer", [page EXCEPT !.flipTimer = FALSE, !.pend.isFlipping = FALSE])

----------------------------------------------------------------------------
(* Specifications *)

\* the state after the first render and its effects: the connection effect has
\* called connectSocket(), nothing is queued
HookAtMount ==
    /\ room = Null
    /\ isConnected = FALSE
    /\ error = NoError
    /\ reconnectAttempts = 0
    /\ pend = [room |-> Null, error |-> NoError, isConnected |-> FALSE, reconnectAttempts |-> 0]
    /\ roomRef = Null
    /\ socket = [st |-> "connecting", cap |-> 0]
    /\ timers = <<>>
    /\ refLive = FALSE
    /\ stale = <<>>
    /\ live = 1
    /\ startTimers = <<>>
    /\ emitted = <<>>
    /\ drops = 0
    /\ scheduled = 0

InitHook ==
    /\ HookAtMount
    /\ page = PageIdle
    /\ last = [op |-> "mount", data |-> <<>>]

Init ==
    /\ InitHook
    /\ budget = [ops |-> MaxOps, drops |-> MaxDrops]

\* runs with many connection drops and few game events
InitDrops ==
    /\ InitHook
    /\ budget = [ops |-> 1, drops |-> LongDrops]

\* runs in which a second drop can follow the first before the hook is reset
InitTimers ==
    /\ InitHook
    /\ budget = [ops |-> MaxOps, drops |-> MaxDrops + 1]

Next ==
    \/ Render
    \/ SocketConnect
    \/ \E reason \in UnplannedReasons \cup {"io server disconnect"} : SocketDisconnect(reason)
    \/ SocketConnectError
    \/ TimerFire
    \/ RoomCreated
    \/ RoomJoined
    \/ RoomReady
    \/ CoinFlipStarted
    \/ CoinFlipResult
    \/ GameCompleted
    \/ RoomStatus
    \/ UnknownEvent
    \/ AltResultEvent
    \/ CreateRoom
    \/ JoinRoom
    \/ ForceReconnect
    \/ ClearRoom
    \/ Disconnect

Spec == Init /\ [][Next]_vars

SpecDrops == InitDrops /\ [][Next]_vars

SpecTimers == InitTimers /\ [][Next]_vars

\* runs about connecting, joining a room and the errors the backend reports
NextErrors ==
    \/ Render
    \/ SocketConnect
    \/ \E reason \in UnplannedReasons \cup {"io server disconnect"} : SocketDisconnect(reason)
    \/ SocketConnectError
    \/ TimerFire
    \/ RoomJoined
    \/ JoinRoom
    \/ ForceReconnect
    \/ ErrorEvent
    \/ ExceptionEvent
    \/ JoinErrorEvent
    \/ JoinRoomErrorEvent

SpecErrors == Init /\ [][NextErrors]_vars

\* runs about sending: the calls that emit, with and without a connection
NextSend ==
    \/ Render
    \/ SocketConnect
    \/ \E reason \in UnplannedReasons \cup {"io server disconnect"} : SocketDisconnect(reason)
    \/ SocketConnectError
    \/ RoomJoined
    \/ CreateRoom
    \/ JoinRoom
    \/ ForceGameStart
    \/ StartTimerFire
    \/ Disconnect

SpecSend == InitTimers /\ [][NextSend]_vars

\* runs of the page: a submit, and the events of one game after it
InitPage ==
    /\ HookAtMount
    /\ page = PageAtMount
    /\ last = [op |-> "mount", data |-> <<>>]
    /\ budget = [ops |-> MaxOps + 2, drops |-> MaxDrops]

NextPage ==
    \/ PageRender
    \/ SocketConnect
    \/ \E reason \in UnplannedReasons : SocketDisconnect(reason)
    \/ JoinedOnPage
    \/ CoinFlipStarted
    \/ ResultOnPage
    \/ ErrorOnPage
    \/ JoinRoomErrorOnPage
    \/ OpenCreate
    \/ OpenJoin
    \/ BackToMenu
    \/ HandleRoomCreated
    \/ HandleRoomJoined
    \/ HandleLeaveRoom
    \/ ReturnTimerFire
    \/ FlipTimerFire

SpecPage == InitPage /\ [][NextPage]_vars

\* runs of the page through a game's result and the loss of the connection, for
\* any reason
InitPageDrops ==
    /\ HookAtMount
    /\ page = PageAtMount
    /\ last = [op |-> "mount", data |-> <<>>]
    /\ budget = [ops |-> MaxOps + 1, drops |-> MaxDrops + 1]

NextPageDrops ==
    \/ PageRender
    \/ SocketConnect
    \/ \E reason \in UnplannedReasons \cup {"io server disconnect"} : SocketDisconnect(reason)
    \/ SocketConnectError
    \/ ResultOnPage
    \/ OpenCreate
    \/ OpenJoin
    \/ BackToMenu
    \/ HandleRoomCreated
    \/ HandleRoomJoined
    \/ HandleLeaveRoom

SpecPageDrops == InitPageDrops /\ [][NextPageDrops]_vars

----------------------------------------------------------------------------
(* The room code validator of the join form, applied to every input *)

InitValidate ==
    /\ HookAtMount
    /\ page = PageIdle
    /\ budget = [ops |-> 0, drops |-> 0]
    /\ \E code \in ValidateInputs : last = [op |-> "input", data |-> code]

ValidateRoomCode ==
    /\ last.op = "input"
    /\ last' = [op |-> "validateRoomCode",
                data |-> [code |-> last.data, result |-> validateRoomCode(last.data)]]
    /\ UNCHANGED <<room, isConnected, error, reconnectAttempts, pend, roomRef, socket,
                   timers, refLive, stale, live, emitted, drops, scheduled, budget, page,
                   startTimers>>

SpecValidate == InitValidate /\ [][ValidateRoomCode]_vars

----------------------------------------------------------------------------
(* GameRoom rendered for every room and viewer *)

\* the rooms GameRoom is given: full without a result, completed with the coin's
\* side as result and, after game_completed, the viewer's outcome. The
\* participants are as the backend lists them: ids are unique, two users may have
\* typed the same name and, in a list the backend should not send, the same side
GameRoomRooms ==
    LET PlayerId(i) == CASE i = 1 -> "p1" [] i = 2 -> "p2" [] i = 3 -> "p3" [] OTHER -> "p4"
        Players == UNION {[1..n -> [name : {PlayerName(1), PlayerName(2)}, side : Sides]] :
                              n \in 0..MaxPlayers}
        WithIds(ps) == [i \in 1..Len(ps) |->
                           [id |-> PlayerId(i), name |-> ps[i].name, side |-> ps[i].side]]
    IN  {r \in [status : {"full", "completed"}, result : Sides \cup {Undef},
                personalResult : {"win", "lose", Undef},
                players : {WithIds(ps) : ps \in Players}] :
            /\ (r.status = "completed") <=> (r.result # Undef)
            /\ r.personalResult # Undef => r.status = "completed"}

\* the currentPlayer prop is what the user typed, or the player synced from the room
InitGameRoom ==
    /\ HookAtMount
    /\ page = PageIdle
    /\ budget = [ops |-> 0, drops |-> 0]
    /\ \E r \in GameRoomRooms,
          cp \in {TempPlayer(name, side) : name \in ViewerNames \cup {PlayerName(2)}, side \in Sides} :
           last = [op |-> "props", data |-> [room |-> r, currentPlayer |-> cp]]

\* one render of GameRoom: who the viewer and the opponent are, and the outcome shown
RenderGameRoom ==
    /\ last.op = "props"
    /\ last' = [op |-> "GameRoom",
                data |-> [room |-> last.data.room,
                          currentPlayer |-> last.data.currentPlayer,
                          actualCurrentPlayer |->
                              actualCurrentPlayer(last.data.room.players, last.data.currentPlayer),
                          otherPlayer |->
                              otherPlayer(last.data.room.players, last.data.currentPlayer),
                          resultShown |-> ResultShown(last.data.room),
                          playerWon |-> playerWon(last.data.room, last.data.currentPlayer)]]
    /\ UNCHANGED <<room, isConnected, error, reconnectAttempts, pend, roomRef, socket,
                   timers, refLive, stale, live, emitted, drops, scheduled, budget, page,
                   startTimers>>

SpecGameRoom == InitGameRoom /\ [][RenderGameRoom]_vars

----------------------------------------------------------------------------
(* Claims *)

InboundOps ==
    {"room_created", "room_joined", "room_ready", "coin_flip_started", "coin_flip_result",
     "game_completed", "room_status", "unknown", "alt_result"}

\* C1: no inbound event moves the recorded room.status backwards in the order
\* waiting < full < playing < flipping < completed.
C1_StatusNeverRegresses ==
    [][(last'.op \in InboundOps /\ pend.room # Null /\ pend'.room # Null)
          => StatusRank(pend'.room[1].status) >= StatusRank(pend.room[1].status)]_vars

\* C2: in a run of consecutive unplanned disconnects without a successful connect,
\* at most MAX_RECONNECT_ATTEMPTS automatic retries are scheduled: there is no 6th.
C2_NoSixthRetry == scheduled <= MAX_RECONNECT_ATTEMPTS

\* C3: once more than MAX_RECONNECT_ATTEMPTS consecutive unplanned disconnects have
\* occurred, the disconnect handler surfaces the terminal connection-failed message,
\* and the error stays a connection error until a successful connect or a user action.
C3_TerminalErrorAfterCap ==
    drops > MAX_RECONNECT_ATTEMPTS
        => /\ pend.error \in {ConnectionFailedMsg, ConnectErrorMsg, ServerDisconnectMsg}
           /\ (last.op = "disconnect" /\ last.data \in UnplannedReasons)
                  => pend.error = ConnectionFailedMsg

\* C4: forceReconnect called while the hook believes it is disconnected resets the
\* attempt counter to zero and calls connectSocket, whatever the counter was.
C4_ForceReconnectResets ==
    (last.op = "forceReconnect" /\ ~isConnected)
        => /\ pend.reconnectAttempts = 0
           /\ socket = [st |-> "connecting", cap |-> reconnectAttempts]

C4_Witness ==
    /\ last.op = "forceReconnect"
    /\ ~isConnected
    /\ last.data > 0
    /\ pend.reconnectAttempts = 0
    /\ socket.st = "connecting"

\* C5: joinRoom with a code whose length is not 6 emits no outbound event and sets
\* the local validation error.
C5_BadLengthJoinRejected ==
    (last.op = "joinRoom" /\ Len(last.data) # RoomCodeLength)
        => emitted = <<>> /\ pend.error = InvalidCodeMsg

C5_Witness ==
    /\ last.op = "joinRoom"
    /\ Len(last.data) = RoomCodeLength - 1
    /\ socket.st = "connected"
    /\ emitted = <<>>
    /\ pend.error = InvalidCodeMsg

\* C6: joinRoom with a 6-character code that equals, ignoring case, the code of the
\* room in the snapshot emits nothing, sets the already-in-room error and leaves the
\* room unchanged.
C6_SameRoomJoinRejected ==
    [][(/\ last'.op = "joinRoom"
        /\ Len(last'.data) = RoomCodeLength
        /\ room # Null
        /\ toUpperCase(last'.data) = toUpperCase(room[1].code))
          => /\ emitted' = <<>>
             /\ pend'.error = AlreadyInRoomMsg
             /\ pend'.room = pend.room
             /\ room' = room]_vars

C6_Witness ==
    /\ last.op = "joinRoom"
    /\ room # Null
    /\ last.data # room[1].code
    /\ toUpperCase(last.data) = room[1].code
    /\ socket.st = "connected"
    /\ pend.error = AlreadyInRoomMsg

SameSides(players) == Len(players) = 2 /\ players[1].side = players[2].side

\* C7: after a room_ready event reporting two participants with identical sides, the
\* snapshot's lastError is non-empty.
C7_ReadySameSidesSetsError ==
    (last.op = "room_ready" /\ SameSides(last.data.players)) => pend.error # NoError

\* C8: after a room_joined event whose assigned joiner side equals the room's creator
\* side, the snapshot holds an anomaly error, and the recorded side is the reported one.
C8_JoinedSameSideSetsError ==
    (last.op = "room_joined" /\ last.data.nested
        /\ last.data.playerSide = last.data.room.creator_side)
        => /\ pend.error # NoError
           /\ pend.room # Null
           /\ pend.room[1].joinedPlayerSide = last.data.playerSide

C10_FlipResultRecorded ==
    last.op = "coin_flip_result"
        => /\ pend.room # Null
           /\ pend.room[1].status = "completed"
           /\ pend.room[1].result = last.data.flipResult

C10_Witness ==
    /\ last.op = "coin_flip_result"
    /\ roomRef # Null
    /\ roomRef[1].status = "flipping"
    /\ pend.room # Null
    /\ pend.room[1].status = "completed"
    /\ pend.room[1].result = "tails"

\* C11: in every reachable state the room's result, personalResult and winnings are
\* set only if the room's status is completed.
C11_OutcomeOnlyWhenCompleted ==
    pend.room # Null
        => ((\/ pend.room[1].result # Undef
             \/ pend.room[1].personalResult # Undef
             \/ pend.room[1].winnings # NoAmount)
                => pend.room[1].status = "completed")

\* C12: at any time at most one socket created by the hook is connecting or
\* connected, and it is the one held in socket.current.
C12_SingleLiveSocket ==
    /\ live <= 1
    /\ (live = 1) <=> (socket.st \in LiveStates)

C12_Witness ==
    /\ last.op = "forceReconnect"
    /\ ~isConnected
    /\ timers # <<>>
    /\ socket.st = "connecting"
    /\ live = 1

ConnectionOps == {"render", "connect", "disconnect", "connect_error", "timer"}

\* C13: no connection step (a drop, the renders that follow it, a retry, a connect)
\* clears or alters a room whose status is completed; only leaving the room or
\* disconnect() does.
C13_DropKeepsCompletedRoom ==
    [][(/\ last'.op \in ConnectionOps
        /\ pend.room # Null
        /\ pend.room[1].status = "completed")
          => pend'.room = pend.room]_vars

\* C14: right after a coin_flip_result or game_completed event the room is not null,
\* it is the placeholder shell only when no room was recorded, its result is the
\* flip result carried by the event, and no personal outcome is recorded that
\* neither the event nor the recorded room carried.
C14_TerminalEventRecorded ==
    last.op \in {"coin_flip_result", "game_completed"}
        => /\ pend.room # Null
           /\ (pend.room[1].code = PlaceholderCode) <=> (roomRef = Null)
           /\ pend.room[1].result = last.data.flipResult
           /\ pend.room[1].personalResult
                  \in {last.data.result} \cup
                      (IF roomRef # Null THEN {roomRef[1].personalResult} ELSE {})

\* C15: from every state, disconnect() leaves no retry timer pending, no socket
\* open, and queues room = null, error = null, reconnectAttempts = 0 and
\* isConnected = false.
C15_DisconnectResets ==
    [][last'.op = "userDisconnect"
          => /\ timers' = <<>>
             /\ socket' = NoSocket
             /\ live' = 0
             /\ pend' = [room |-> Null, error |-> NoError, isConnected |-> FALSE,
                         reconnectAttempts |-> 0]]_vars

\* C16: a reconnect timer that fires was not superseded: no connect (by
\* forceReconnect, by another timer, by the connection effect) and no disconnect()
\* happened between its scheduling and its firing.
C16_NoStaleTimerFires == last.op = "timer" => last.data = FALSE

C18_AnomalousServerClose ==
    [][(/\ last'.op = "disconnect"
        /\ last'.data = "io server disconnect"
        /\ (room = Null \/ room[1].status # "completed"))
          => /\ pend'.error = ServerDisconnectMsg
             /\ timers' = timers
             /\ pend'.reconnectAttempts = pend.reconnectAttempts
             /\ pend'.room = pend.room
             /\ socket'.st = "closed"]_vars

C18_Witness ==
    /\ last.op = "disconnect"
    /\ last.data = "io server disconnect"
    /\ room # Null
    /\ room[1].status = "full"
    /\ pend.room = room
    /\ pend.error = ServerDisconnectMsg
    /\ timers = <<>>
    /\ socket.st = "closed"

C20_JoinCodeWellFormed ==
    \A i \in DOMAIN emitted :
        emitted[i].event = "join_room"
            => /\ Len(emitted[i].arg) = RoomCodeLength
               /\ \A k \in DOMAIN emitted[i].arg : emitted[i].arg[k] \in RoomCodeChars

\* C21: after a successful connect the queued retry counter is 0, isConnected is
\* true and the error is cleared, whatever error was held before.
C21_ConnectResets ==
    last.op = "connect"
        => /\ pend.isConnected
           /\ pend.reconnectAttempts = 0
           /\ pend.error = NoError
           /\ socket.st = "connected"

C21_Witness ==
    /\ last.op = "connect"
    /\ error = ConnectErrorMsg
    /\ pend.error = NoError
    /\ pend.isConnected

\* C26: createRoom called with an empty or missing side emits nothing; called with a
\* side on a connected socket it emits exactly one create_room carrying that side;
\* in both cases the room is left as it was.
C26_CreateRoomNeedsSide ==
    [][last'.op = "createRoom"
          => /\ pend'.room = pend.room
             /\ room' = room
             /\ last'.data \notin Sides => emitted' = <<>>
             /\ (last'.data \in Sides /\ socket.st = "connected")
                    => emitted' = <<[event |-> "create_room", arg |-> last'.data]>>]_vars

\* C27: in every reachable state the room holds at most 2 participants, whatever
\* player lists the inbound events carry.
C27_AtMostTwoParticipants ==
    pend.room # Null => Len(pend.room[1].players) <= 2

\* C29: an unplanned drop below the cap increments the queued counter by exactly one
\* and schedules exactly one retry, and the counter goes back to zero only at a
\* successful connect, at disconnect() or at forceReconnect().
C29_CounterCountsDrops ==
    [][/\ (/\ last'.op = "disconnect"
           /\ last'.data \in UnplannedReasons
           /\ socket.cap < MAX_RECONNECT_ATTEMPTS)
          => /\ pend'.reconnectAttempts = pend.reconnectAttempts + 1
             /\ Len(timers') = Len(timers) + 1
       /\ (pend.reconnectAttempts > 0 /\ pend'.reconnectAttempts = 0)
          => last'.op \in {"connect", "userDisconnect", "forceReconnect"}]_vars

\* C30: a step that closes the connected socket locally (disconnect(), or a
\* connectSocket tearing it down from forceReconnect, a retry timer or the
\* connection effect) schedules no retry, does not increment the counter and sets
\* no error.
C30_LocalCloseSilent ==
    [][(/\ last'.op \in {"userDisconnect", "forceReconnect", "timer", "render"}
        /\ socket.st = "connected"
        /\ socket' # socket)
          => /\ Len(timers') <= Len(timers)
             /\ pend'.reconnectAttempts <= pend.reconnectAttempts
             /\ pend'.error \in {pend.error, NoError}
             /\ ~pend'.isConnected]_vars

C30_Witness ==
    /\ last.op = "userDisconnect"
    /\ isConnected
    /\ ~pend.isConnected
    /\ socket = NoSocket
    /\ live = 0
    /\ timers = <<>>
    /\ pend.error = NoError

\* C28: validateRoomCode accepts a string if and only if its trimmed, uppercased
\* form is exactly 6 characters, all letters A-Z or digits; every other input is
\* rejected with an error message.
C28_ValidateRoomCode ==
    last.op = "validateRoomCode"
        => LET normalized == toUpperCase(trim(last.data.code))
               result == last.data.result
           IN  /\ result.isValid
                      <=> /\ Len(normalized) = RoomCodeLength
                          /\ \A i \in DOMAIN normalized : normalized[i] \in RoomCodeChars
               /\ ~result.isValid
                      => result.error \in {RequiredCodeMsg, CodeLengthMsg, CodeCharsMsg}

C28_Witness ==
    /\ last.op = "validateRoomCode"
    /\ last.data.result.isValid
    /\ Len(last.data.code) = RoomCodeLength + 2
    /\ last.data.code[2] = "a"

ErrorOps == {"error", "exception", "join_error", "join_room_error"}

\* C22: an error, exception, join_error or join_room_error event whose payload is
\* empty (null, undefined or an object without keys) is ignored: the queued error
\* and the queued room stay as they were, and nothing else of the hook moves.
C22_EmptyErrorIgnored ==
    [][(last'.op \in ErrorOps /\ IsEmptyPayload(last'.data))
          => /\ pend' = pend
             /\ socket' = socket
             /\ timers' = timers
             /\ emitted' = <<>>]_vars

C22_Witness ==
    /\ last.op = "error"
    /\ last.data.shape = "empty"
    /\ pend.room # Null
    /\ pend.error = NoError

\* C23: an error or join_room_error event is never retried automatically: the
\* step emits no outbound event, schedules or cancels no timer, and leaves the
\* socket, reconnectAttempts and isConnected as they were.
C23_ProtocolErrorNotRetried ==
    [][last'.op \in {"error", "join_room_error"}
          => /\ emitted' = <<>>
             /\ timers' = timers
             /\ socket' = socket
             /\ pend'.reconnectAttempts = pend.reconnectAttempts
             /\ pend'.isConnected = pend.isConnected
             /\ pend'.room = pend.room]_vars

C23_Witness ==
    /\ last.op = "join_room_error"
    /\ last.data.statusCode = Conflict
    /\ pend.error = RoomFullMsg
    /\ pend.isConnected
    /\ socket.st = "connected"
    /\ timers = <<>>

\* C24: after the user submitted the create or join form (currentPlayer is set) and
\* the backend answered with an error saying the room is unusable (not found, not
\* available, full), the render that shows this error arms the 3 s timer back to
\* the menu, or the page is already in the menu.
C24_ErrorReturnsToMenu ==
    [][(/\ last.op \in {"error", "join_room_error"}
        /\ last'.op = "render"
        /\ page.pend.currentPlayer # Null
        /\ pend.room = Null
        /\ IsRoomUnusable(pend.error))
          => (page'.returnTimer \/ page'.now.gameMode = "menu")]_vars

\* C25: once the result has been rendered (GameRoom shows a completed room and
\* nothing is queued), isFlipping is down, or its 2 s timer is still pending and
\* will lower it: the flag is lowered whenever the result arrives.
C25_FlipFlagLowered ==
    (/\ ~Dirty
     /\ GameRoomShown(ViewOf(Committed, page.now))
     /\ gameRoomOf(ViewOf(Committed, page.now))[1].status = "completed"
     /\ page.now.isFlipping)
        => page.flipTimer

\* C32 as stated: an event whose name is not in knownEvents replaces the queued room
\* by its payload and clears the error when the payload has a code, id or room
\* field, and changes nothing otherwise; the names of possibleResultEvents that are
\* not in knownEvents ("alt_result") count as such events.
C32_UnknownEventAbsorbed ==
    [][last'.op \in {"unknown", "alt_result"}
          => IF last'.op = "unknown" /\ last'.data.nested
             THEN /\ pend' = [pend EXCEPT !.room = Some(RoomDataOf(last'.data)),
                                          !.error = NoError]
                  /\ emitted' = <<>>
             ELSE pend' = pend]_vars

\* C32 amended: the same for the events that have no listener besides onAny (their
\* name is neither in knownEvents nor in possibleResultEvents).
C32_UnlistenedEventAbsorbed ==
    [][last'.op = "unknown"
          => /\ IF last'.data.nested
                THEN pend' = [pend EXCEPT !.room = Some(RoomDataOf(last'.data)),
                                          !.error = NoError]
                ELSE pend' = pend
             /\ emitted' = <<>>
             /\ socket' = socket
             /\ timers' = timers]_vars

C32_Witness ==
    /\ last.op = "unknown"
    /\ last.data.nested
    /\ error = InvalidCodeMsg
    /\ pend.error = NoError
    /\ pend.room = Some(RoomDataOf(last.data))

\* the category of an error object, from its message text, its error field or its
\* type field
PayloadWords(d) == WordsOf(d.message) \cup WordsOf(d.error) \cup WordsOf(d.type)

IsRoomFullPayload(d) == d.shape = "object" /\ "full" \in PayloadWords(d)

IsRoomNotFoundPayload(d) ==
    /\ d.shape = "object"
    /\ ~IsRoomFullPayload(d)
    /\ (PayloadWords(d) \cap {"not found", "not available"} # {} \/ d.type = "room_not_found")

\* C33: an error or join_room_error payload of the room-full category produces the
\* one room-full message, and one of the room-not-found category the one
\* room-not-found message, whichever field the category is recognised from.
C33_OneMessagePerCategory ==
    [][last'.op \in {"error", "join_room_error"}
          => /\ IsRoomFullPayload(last'.data) => pend'.error = RoomFullMsg
             /\ IsRoomNotFoundPayload(last'.data) => pend'.error = RoomNotFoundMsg]_vars

SendOps == {"createRoom", "joinRoom", "forceGameStart", "startTimer"}

\* the call gets as far as sendEvent: joinRoom with a 6-character code of another
\* room than the current one, forceGameStart with a room
ReachesSend ==
    \/ last'.op \in {"createRoom", "startTimer"}
    \/ /\ last'.op = "joinRoom"
       /\ Len(last'.data) = RoomCodeLength
       /\ ~(room # Null /\ room[1].code = toUpperCase(last'.data))
    \/ last'.op = "forceGameStart" /\ room # Null

C38_ResultIsASide ==
    /\ pend.room # Null => pend.room[1].result \in Sides \cup {Undef}
    /\ room # Null => room[1].result \in Sides \cup {Undef}

\* C39: a result event (coin_flip_result, game_completed, or a result under an
\* alternate name) processed after another event keeps what that event wrote,
\* rendered or not: the queued room keeps its code, creator_side and the sides
\* recorded for the creator and the joiner, which no result handler writes.
C39_RefKeepsLastEvent ==
    [][(last'.op \in {"coin_flip_result", "game_completed", "alt_result"} /\ pend.room # Null)
          => /\ pend'.room # Null
             /\ pend'.room[1].code = pend.room[1].code
             /\ pend'.room[1].creator_side = pend.room[1].creator_side
             /\ pend'.room[1].creatorPlayerSide = pend.room[1].creatorPlayerSide
             /\ pend'.room[1].joinedPlayerSide = pend.room[1].joinedPlayerSide]_vars

\* C31: GameRoom resolves the viewer to the first participant with the viewer's
\* name, else to the first with the viewer's side, else to the first entry; the
\* opponent is a participant other than the resolved viewer, and there is one
\* whenever the room has another participant.
C31_ViewerResolution ==
    last.op = "GameRoom"
        => LET ps == last.data.room.players
               cp == last.data.currentPlayer
               a == last.data.actualCurrentPlayer
               o == last.data.otherPlayer
               named == {i \in DOMAIN ps : ps[i].name = cp.name}
               sided == {i \in DOMAIN ps : ps[i].side = cp.side}
           IN  /\ named # {} => a \in named /\ \A i \in named : a <= i
               /\ named = {} /\ sided # {} => a \in sided /\ \A i \in sided : a <= i
               /\ named = {} /\ sided = {} /\ ps # <<>> => a = 1
               /\ ps = <<>> => a = 0 /\ o = 0
               /\ o # 0 => o \in DOMAIN ps /\ o # a
               /\ Len(ps) >= 2 => o # 0
               /\ Len(ps) = 2 => {a, o} = {1, 2}

C31_Witness ==
    /\ last.op = "GameRoom"
    /\ Len(last.data.room.players) = 2
    /\ last.data.currentPlayer.name = "Zoe"
    /\ last.data.currentPlayer.side = "tails"
    /\ last.data.room.players[1].side = "heads"
    /\ last.data.room.players[2].side = "tails"
    /\ last.data.actualCurrentPlayer = 2
    /\ last.data.otherPlayer = 1

\* C40: when the completed room carries a personalized outcome, the outcome
\* GameRoom shows agrees with it: "lose" is never shown as a win, "win" never as a
\* loss.
C40_ShownOutcomeIsPersonal ==
    (last.op = "GameRoom" /\ last.data.resultShown)
        => /\ last.data.room.personalResult = "lose" => ~last.data.playerWon
           /\ last.data.room.personalResult = "win" => last.data.playerWon

\* C35: once the page holds the final result of a completed room, and as long as
\* the user has not left the room (leaving queues the final result's removal),
\* every step keeps the final result and the game view rendered from it, whatever
\* happens to the hook's room and to the connection.
C35_FinalResultKept ==
    [][(/\ page.now.finalGameResult # Null
        /\ page.pend.finalGameResult # Null
        /\ last'.op # "handleLeaveRoom")
          => /\ page.pend'.finalGameResult # Null
             /\ page.pend'.gameMode = "game"
             /\ page.now'.finalGameResult # Null
             /\ page.now'.gameMode = "game"
             /\ GameRoomShown(ViewOf(Committed', page.now'))
             /\ gameRoomOf(ViewOf(Committed', page.now')) = page.now'.finalGameResult]_vars

C35_Witness ==
    /\ ~Dirty
    /\ page.now.finalGameResult # Null
    /\ page.now.gameMode = "game"
    /\ room = Null
    /\ ~isConnected
    /\ drops > 0

\* C36: in a settled render of the menu with the connection down and no socket
\* trying to connect, either the page's 1 s reconnect timer is pending or the
\* "Click to reconnect" button is shown (isAutoReconnecting is false).
C36_ReconnectAvailable ==
    (/\ ~Dirty
     /\ page.now.gameMode = "menu"
     /\ ~isConnected
     /\ socket.st \notin LiveStates
     /\ timers = <<>>)
        => (page.reconnectTimer \/ ~page.now.isAutoReconnecting)

\* C37: after the user left the room, and until a form is submitted again, a late
\* coin_flip_started or coin_flip_result leaves the room snapshot null.
C37_LateEventIgnored ==
    [][(/\ page.left
        /\ pend.room = Null
        /\ last'.op \in {"coin_flip_started", "coin_flip_result"})
          => pend'.room = Null]_vars

====
